---- MODULE Spec2Model ----
(***************************************************************************)
(* Model of src/app.py: the password gate of the Streamlit script, and the *)
(* pandas pipeline behind it (family split, month x product pivots, the    *)
(* colour range, the day-of-maximum annotation and the daily view).        *)
(*                                                                         *)
(* A data frame is a sequence of rows; a row keeps the index label that    *)
(* read_csv gave it.  A pivoted frame is [err, index, columns, data] with  *)
(* data a row-major matrix of cells.  A cell is a rational num/den or NaN. *)
(***************************************************************************)
EXTENDS Integers, Sequences, FiniteSets, TLC

\* ---------------------------------------------------------------- bounds
MaxLen == 2
MaxPrice == 2

\* ------------------------------------------------------------ cell values
NaN == [nan |-> TRUE, num |-> 0, den |-> 1]
Val(n) == [nan |-> FALSE, num |-> n, den |-> 1]
Ratio(n, d) == [nan |-> FALSE, num |-> n, den |-> d]

\* a < b on floats: every comparison with NaN is false
FloatLt(a, b) == ~a.nan /\ ~b.nan /\ a.num * b.den < b.num * a.den
FloatGt(a, b) == FloatLt(b, a)

\* ------------------------------------------------------ product definitions
upward_products ==
    <<"POS_00_04", "POS_04_08", "POS_08_12", "POS_12_16", "POS_16_20", "POS_20_24">>
downward_products ==
    <<"NEG_00_04", "NEG_04_08", "NEG_08_12", "NEG_12_16", "NEG_16_20", "NEG_20_24">>
product_labels == <<"0 to 4", "4 to 8", "8 to 12", "12 to 16", "16 to 20", "20 to 24">>
months_order ==
    <<"Jan", "Feb", "Mar", "Apr", "May", "Jun", "Jul", "Aug", "Sep", "Oct", "Nov", "Dec">>
Years == {2021, 2022, 2023, 2024, 2025}
PriceCols == {"AVERAGE", "MARGINAL"}

\* the order in which pandas sorts group keys (plain string order)
SortedMonthLabels ==
    <<"Apr", "Aug", "Dec", "Feb", "Jan", "Jul", "Jun", "Mar", "May", "Nov", "Oct", "Sep">>
SortedProductCodes == downward_products \o upward_products

Range(s) == {s[i] : i \in 1..Len(s)}
isin(x, values) == \E i \in 1..Len(values) : values[i] = x
Products(family) == IF family = "up" THEN upward_products ELSE downward_products

\* ------------------------------------------------------------ file loading
\* df['Month'] = df['DATE_FROM'].dt.strftime('%b')
strftime_b(d) == months_order[d.month]

load_data(file) ==
    [i \in 1..Len(file) |->
        [label |-> i - 1,
         DATE_FROM |-> file[i].date,
         PRODUCT |-> file[i].product,
         AVERAGE |-> file[i].average,
         MARGINAL |-> file[i].marginal,
         Month |-> strftime_b(file[i].date)]]

Col(row, price_col) == IF price_col = "AVERAGE" THEN row.AVERAGE ELSE row.MARGINAL

\* ------------------------------------------------------------ family split
IsUp(row) == isin(row.PRODUCT, upward_products)
IsDown(row) == isin(row.PRODUCT, downward_products)
df_up(df) == SelectSeq(df, IsUp)
\* mutant: the downward subset taken as "everything that is not upward"
df_dn_not_up(df) == SelectSeq(df, LAMBDA row : ~IsUp(row))
df_dn(df) == SelectSeq(df, IsDown)

\* ----------------------------------------------------- pandas frame helpers
Pos(s, x) == CHOOSE i \in 1..Len(s) : s[i] = x
KeyError == [err |-> "KeyError", index |-> <<>>, columns |-> <<>>, data |-> <<>>]

RECURSIVE SumSeq(_)
SumSeq(s) == IF s = <<>> THEN 0 ELSE Head(s) + SumSeq(Tail(s))

RECURSIVE MaxSeq(_)
MaxSeq(s) ==
    IF Len(s) = 1 THEN Head(s)
    ELSE LET m == MaxSeq(Tail(s)) IN IF Head(s) >= m THEN Head(s) ELSE m

\* the rows of one (Month, PRODUCT) group, in frame order
GroupRows(df, month, product) ==
    SelectSeq(df, LAMBDA r : r.Month = month /\ r.PRODUCT = product)

Column(rows, price_col) == [i \in 1..Len(rows) |-> Col(rows[i], price_col)]

\* aggfunc='mean' / aggfunc='max' on a non-empty group
Aggfunc(aggfunc, values) ==
    IF aggfunc = "mean" THEN Ratio(SumSeq(values), Len(values))
    ELSE Val(MaxSeq(values))

\* df.pivot_table(index='Month', columns='PRODUCT', values=..., aggfunc=...):
\* one row per month present and one column per product present, both in
\* sorted key order; applied to df_up / df_dn only
pivot_table(df, values, aggfunc) ==
    LET index == SelectSeq(SortedMonthLabels,
                           LAMBDA m : \E i \in 1..Len(df) : df[i].Month = m)
        columns == SelectSeq(SortedProductCodes,
                             LAMBDA p : \E i \in 1..Len(df) : df[i].PRODUCT = p)
    IN  [err |-> "",
         index |-> index,
         columns |-> columns,
         data |-> [i \in 1..Len(index) |-> [j \in 1..Len(columns) |->
                     LET g == GroupRows(df, index[i], columns[j])
                     IN  IF g = <<>> THEN NaN
                         ELSE Aggfunc(aggfunc, Column(g, values))]]]

\* frame.reindex(labels): rows in the order of labels, NaN rows for new labels
reindex(frame, labels) ==
    [err |-> "",
     index |-> labels,
     columns |-> frame.columns,
     data |-> [i \in 1..Len(labels) |->
                 IF isin(labels[i], frame.index)
                 THEN frame.data[Pos(frame.index, labels[i])]
                 ELSE [j \in 1..Len(frame.columns) |-> NaN]]]

\* frame[columns] with a list: KeyError when a listed column is missing
getitem(frame, columns) ==
    IF \E j \in 1..Len(columns) : ~isin(columns[j], frame.columns)
    THEN KeyError
    ELSE [err |-> "",
          index |-> frame.index,
          columns |-> columns,
          data |-> [i \in 1..Len(frame.index) |-> [j \in 1..Len(columns) |->
                      frame.data[i][Pos(frame.columns, columns[j])]]]]

\* pivot_up_avg, pivot_dn_avg, pivot_up_max, ... :
\* df_x.pivot_table(...).reindex(months_order)[products]
aggregate(df, products, values, aggfunc) ==
    getitem(reindex(pivot_table(df, values, aggfunc), months_order), products)

\* ------------------------------------------------- day-of-maximum annotation
DateLt(a, b) ==
    \/ a.year < b.year
    \/ a.year = b.year /\ a.month < b.month
    \/ a.year = b.year /\ a.month = b.month /\ a.day < b.day

\* where the next row goes in an already sorted frame; sort_values uses the
\* default kind (quicksort), which does not fix the order of rows with equal
\* DATE_FROM: ties_reversed chooses between the two extreme tie orders
InsertAt(sorted, row, ties_reversed) ==
    Cardinality({k \in 1..Len(sorted) :
        \/ DateLt(sorted[k].DATE_FROM, row.DATE_FROM)
        \/ ~ties_reversed /\ sorted[k].DATE_FROM = row.DATE_FROM})

\* mutant: the frame is grouped in file order, without sorting
sort_values_skipped(df, ties_reversed) == df

RECURSIVE sort_values(_, _)
sort_values(df, ties_reversed) ==
    IF df = <<>> THEN <<>>
    ELSE LET n == Len(df)
             sorted == sort_values(SubSeq(df, 1, n - 1), ties_reversed)
             at == InsertAt(sorted, df[n], ties_reversed)
         IN  SubSeq(sorted, 1, at) \o <<df[n]>> \o SubSeq(sorted, at + 1, n - 1)

\* all (Month, PRODUCT) keys in the sorted order groupby walks them
GroupKeys ==
    [k \in 1..(Len(SortedMonthLabels) * Len(SortedProductCodes)) |->
        [Month |-> SortedMonthLabels[((k - 1) \div Len(SortedProductCodes)) + 1],
         PRODUCT |-> SortedProductCodes[((k - 1) % Len(SortedProductCodes)) + 1]]]

\* Series.idxmax of one group: the label of the first row holding the maximum
idxmax(rows, price_col) ==
    LET values == Column(rows, price_col)
        first == CHOOSE i \in 1..Len(rows) :
                    /\ values[i] = MaxSeq(values)
                    /\ \A j \in 1..(i - 1) : values[j] # MaxSeq(values)
    IN  rows[first].label

\* df_sorted.groupby(['Month', 'PRODUCT'])[price_col].idxmax()
groupby_idxmax(df_sorted, price_col) ==
    LET keys == SelectSeq(GroupKeys,
                    LAMBDA k : \E i \in 1..Len(df_sorted) :
                        df_sorted[i].Month = k.Month /\ df_sorted[i].PRODUCT = k.PRODUCT)
    IN  [k \in 1..Len(keys) |->
            idxmax(GroupRows(df_sorted, keys[k].Month, keys[k].PRODUCT), price_col)]

\* df_sorted.loc[idx, ['Month', 'PRODUCT', 'DATE_FROM']].assign(DAY=...)
loc_day(df_sorted, idx) ==
    [k \in 1..Len(idx) |->
        LET row == df_sorted[CHOOSE i \in 1..Len(df_sorted) : df_sorted[i].label = idx[k]]
        IN  [Month |-> row.Month, PRODUCT |-> row.PRODUCT,
             DATE_FROM |-> row.DATE_FROM, DAY |-> row.DATE_FROM.day]]

\* .pivot(index='Month', columns='PRODUCT', values='DAY')
pivot_day(rows) ==
    LET index == SelectSeq(SortedMonthLabels,
                           LAMBDA m : \E i \in 1..Len(rows) : rows[i].Month = m)
        columns == SelectSeq(SortedProductCodes,
                             LAMBDA p : \E i \in 1..Len(rows) : rows[i].PRODUCT = p)
    IN  [err |-> "",
         index |-> index,
         columns |-> columns,
         data |-> [i \in 1..Len(index) |-> [j \in 1..Len(columns) |->
                     LET g == GroupRows(rows, index[i], columns[j])
                     IN  IF g = <<>> THEN NaN ELSE Val(g[1].DAY)]]]

build_max_day_annotation(df, products, price_col, ties_reversed) ==
    LET df_sorted == sort_values(df, ties_reversed)
        idx == groupby_idxmax(df_sorted, price_col)
    IN  getitem(reindex(pivot_day(loc_day(df_sorted, idx)), months_order), products)

\* ------------------------------------------------------------ colour range
\* Series.min() / Series.max(): NaN entries are skipped, NaN when none is left
RECURSIVE nanmin(_)
nanmin(s) ==
    IF s = <<>> THEN NaN
    ELSE LET h == Head(s)
             t == nanmin(Tail(s))
         IN  IF h.nan THEN t ELSE IF t.nan THEN h ELSE IF FloatLt(t, h) THEN t ELSE h

RECURSIVE nanmax(_)
nanmax(s) ==
    IF s = <<>> THEN NaN
    ELSE LET h == Head(s)
             t == nanmax(Tail(s))
         IN  IF h.nan THEN t ELSE IF t.nan THEN h ELSE IF FloatGt(t, h) THEN t ELSE h

ColumnCells(frame, j) == [i \in 1..Len(frame.index) |-> frame.data[i][j]]

\* frame.min().min() and frame.max().max()
min_min(frame) == nanmin([j \in 1..Len(frame.columns) |-> nanmin(ColumnCells(frame, j))])
max_max(frame) == nanmax([j \in 1..Len(frame.columns) |-> nanmax(ColumnCells(frame, j))])

\* Python's builtin min(a, b) / max(a, b): b replaces a only when b < a (b > a)
py_min(a, b) == IF FloatLt(b, a) THEN b ELSE a
py_max(a, b) == IF FloatGt(b, a) THEN b ELSE a

vmin(pivot_up, pivot_dn) == py_min(min_min(pivot_up), min_min(pivot_dn))
vmax(pivot_up, pivot_dn) == py_max(max_max(pivot_up), max_max(pivot_dn))

\* --------------------------------------------------------------- daily view
\* mutant: the downward products listed first
all_products_down_first == downward_products \o upward_products
all_products == upward_products \o downward_products
labels ==
    [k \in 1..(2 * Len(product_labels)) |->
        IF k <= Len(product_labels)
        THEN <<"Up", product_labels[k]>>
        ELSE <<"Down", product_labels[k - Len(product_labels)]>>]

\* mutant: row.iloc[-1]
iloc_last(rows) == rows[Len(rows)]
\* row.iloc[0] of the rows of one product
iloc_first(rows) == rows[1]

\* lines 377-404: the bar chart's x and y, or the "no data" notice
daily_view(df, selected_day, price_type) ==
    LET day_df == SelectSeq(df, LAMBDA r : r.DATE_FROM = selected_day)
    IN  IF day_df # <<>>
        THEN [shown |-> "chart",
              x |-> labels,
              y |-> [k \in 1..Len(all_products) |->
                       LET row == SelectSeq(day_df,
                                            LAMBDA r : r.PRODUCT = all_products[k])
                       IN  IF row # <<>> THEN Val(Col(iloc_first(row), price_type))
                           ELSE NaN]]
        ELSE [shown |-> "info", x |-> <<>>, y |-> <<>>]

\* ============================================================= state
VARIABLES
    secret_password,   \* get_config_value('SECRET_PASSWORD', '')
    session_state,     \* st.session_state of the browser session
    last_login,        \* history: the most recent login submission
    widgets,           \* values of the widgets below the gate
    page,              \* what the last run of the script rendered
    file,              \* the records of the year's CSV file
    file2,             \* the same records in another order
    tables,            \* a pair of pivoted frames handed to the colour range
    op,                \* the operation applied to the inputs ("input": none yet)
    args,              \* its arguments
    out                \* its result

vars == <<secret_password, session_state, last_login, widgets, page,
          file, file2, tables, op, args, out>>

\* ------------------------------------------------------------ input records
Date(y, m, d) == [year |-> y, month |-> m, day |-> d]
Prices == 1..MaxPrice

\* one auction result per product on 1 January, for the products in present
FillRecords(present, y) ==
    LET codes == SelectSeq(all_products, LAMBDA p : p \in present)
    IN  [k \in 1..Len(codes) |->
            [date |-> Date(y, 1, 1), product |-> codes[k], average |-> 1, marginal |-> 2]]

FreeRecords(dates, products) ==
    [date : dates, product : products, average : Prices, marginal : Prices]

\* free records whose two prices order them oppositely
MirroredRecords(dates, products) ==
    {[date |-> d, product |-> p, average |-> a, marginal |-> MaxPrice + 1 - a] :
        d \in dates, p \in products, a \in Prices}

FreeSeqs(records) == UNION {[1..n -> records] : n \in 0..MaxLen}

AllCodes == Range(all_products)
FillSets == {{}, AllCodes, AllCodes \ {"NEG_04_08"}}

\* the files tried: a few free records before or after a block of fill records
Files(records, fills, fill_first) ==
    {IF first THEN FillRecords(present, 2025) \o free
              ELSE free \o FillRecords(present, 2025) :
        free \in FreeSeqs(records), present \in fills, first \in fill_first}

Reverse(s) == [i \in 1..Len(s) |-> s[Len(s) + 1 - i]]
Rotate(s) == IF s = <<>> THEN s ELSE Tail(s) \o <<Head(s)>>

NoPage == [gated |-> FALSE, error |-> "", sections |-> <<>>,
           daily |-> [shown |-> "", x |-> <<>>, y |-> <<>>]]
NoArgs == [family |-> "", values |-> "", aggfunc |-> "",
           selected_day |-> Date(2025, 1, 1), ties |-> <<>>]
NoWidgets == [year |-> 2025, max_price_days |-> FALSE, max_marginal_days |-> FALSE,
              selected_day |-> Date(2025, 1, 1),
              price_type |-> "AVERAGE"]

\* the part of the state a pure-function specification does not use
IdleSession ==
    /\ secret_password = ""
    /\ session_state = {}
    /\ last_login = [submitted |-> FALSE, password |-> ""]
    /\ widgets = NoWidgets
    /\ page = NoPage

IdleUnchanged ==
    UNCHANGED <<secret_password, session_state, last_login, widgets, page,
                file, file2, tables>>

\* ===================================================== the family split
SplitDates == {Date(2025, 1, 2)}
SplitCodes == {"POS_00_04", "NEG_04_08", "OTHER_00_04"}

InitSplit ==
    /\ IdleSession
    /\ file \in Files(FreeRecords(SplitDates, SplitCodes), FillSets, BOOLEAN)
    /\ file2 = <<>>
    /\ tables = <<>>
    /\ op = "input"
    /\ args = NoArgs
    /\ out = <<>>

\* lines 88-106: df, df_up and df_dn
Split ==
    /\ op = "input"
    /\ op' = "split"
    /\ args' = args
    /\ LET df == load_data(file)
       IN  out' = [df |-> df, df_up |-> df_up(df), df_dn |-> df_dn(df)]
    /\ IdleUnchanged

SpecSplit == InitSplit /\ [][Split]_vars

\* ================================================ the monthly pivot tables
PivotDates == {Date(2025, 1, 1), Date(2025, 1, 2), Date(2025, 12, 1)}
PivotCodes == {"POS_00_04", "NEG_04_08"}
Families == {"up", "down"}
Family(df, family) == IF family = "up" THEN df_up(df) ELSE df_dn(df)

InitPivot ==
    /\ IdleSession
    /\ file \in Files(FreeRecords(PivotDates, PivotCodes), FillSets, BOOLEAN)
    /\ file2 = <<>>
    /\ tables = <<>>
    /\ op = "input"
    /\ args = NoArgs
    /\ out = <<>>

\* one of pivot_up_avg, pivot_dn_avg, pivot_up_max, ..., pivot_dn_max_marginal
Aggregate ==
    /\ op = "input"
    /\ \E family \in Families, values \in PriceCols, aggfunc \in {"mean", "max"} :
        /\ op' = "aggregate"
        /\ args' = [NoArgs EXCEPT !.family = family, !.values = values,
                                  !.aggfunc = aggfunc]
        /\ out' = aggregate(Family(load_data(file), family), Products(family),
                            values, aggfunc)
    /\ IdleUnchanged

\* one call of build_max_day_annotation (lines 247-256, 319-328)
DayOfMax ==
    /\ op = "input"
    /\ \E family \in Families, price_col \in PriceCols, ties_reversed \in BOOLEAN :
        /\ op' = "day_of_max"
        /\ args' = [NoArgs EXCEPT !.family = family, !.values = price_col,
                                  !.ties = <<ties_reversed>>]
        /\ out' = build_max_day_annotation(Family(load_data(file), family),
                                           Products(family), price_col, ties_reversed)
    /\ IdleUnchanged

SpecPivot == InitPivot /\ [][Aggregate \/ DayOfMax]_vars

\* ============================= the annotation on two orders of one record set
PermCodes == {"POS_00_04"}
PermFills == {AllCodes, AllCodes \ {"NEG_04_08"}}

InitPerm ==
    /\ IdleSession
    /\ file \in Files(MirroredRecords(PivotDates, PermCodes), PermFills, {FALSE})
    /\ file2 \in {Reverse(file), Rotate(file)}
    /\ tables = <<>>
    /\ op = "input"
    /\ args = NoArgs
    /\ out = <<>>

DayOfMaxBoth ==
    /\ op = "input"
    /\ \E family \in Families, price_col \in PriceCols,
          ties_reversed \in BOOLEAN, ties_reversed2 \in BOOLEAN :
        /\ op' = "day_of_max_both"
        /\ args' = [NoArgs EXCEPT !.family = family, !.values = price_col,
                                  !.ties = <<ties_reversed, ties_reversed2>>]
        /\ out' = [a |-> build_max_day_annotation(Family(load_data(file), family),
                            Products(family), price_col, ties_reversed),
                   b |-> build_max_day_annotation(Family(load_data(file2), family),
                            Products(family), price_col, ties_reversed2)]
    /\ IdleUnchanged

SpecPerm == InitPerm /\ [][DayOfMaxBoth]_vars

\* ============================================================ the daily view
DayDates == {Date(2025, 1, 1), Date(2025, 1, 2)}

InitDay ==
    /\ IdleSession
    /\ file \in Files(MirroredRecords(DayDates, PivotCodes), FillSets, BOOLEAN)
    /\ file2 = <<>>
    /\ tables = <<>>
    /\ op = "input"
    /\ args = NoArgs
    /\ out = <<>>

\* lines 361-404 for one selected day and price type
ExtractDay ==
    /\ op = "input"
    /\ \E selected_day \in DayDates, price_type \in PriceCols :
        /\ op' = "extract_day"
        /\ args' = [NoArgs EXCEPT !.selected_day = selected_day, !.values = price_type]
        /\ out' = daily_view(load_data(file), selected_day, price_type)
    /\ IdleUnchanged

SpecDay == InitDay /\ [][ExtractDay]_vars

\* ========================================================== the colour range
\* frames as lines 173-191 leave them: 12 months x 6 products; the cells that
\* vary are (Jan, first product) and (Dec, last product), the others are NaN
CellValues == {NaN} \cup {Val(n) : n \in Prices}
FrameOf(products, jan_first, dec_last) ==
    [err |-> "",
     index |-> months_order,
     columns |-> products,
     data |-> [i \in 1..Len(months_order) |-> [j \in 1..Len(products) |->
                 IF i = 1 /\ j = 1 THEN jan_first
                 ELSE IF i = Len(months_order) /\ j = Len(products) THEN dec_last
                 ELSE NaN]]]

InitRange ==
    /\ IdleSession
    /\ file = <<>>
    /\ file2 = <<>>
    /\ \E a \in CellValues, b \in CellValues, c \in CellValues, d \in CellValues :
        tables = <<FrameOf(upward_products, a, b), FrameOf(downward_products, c, d)>>
    /\ op = "input"
    /\ args = NoArgs
    /\ out = <<>>

\* lines 193-194 (and 237-238, 303-310)
ValueRange ==
    /\ op = "input"
    /\ op' = "value_range"
    /\ args' = args
    /\ out' = [vmin |-> vmin(tables[1], tables[2]), vmax |-> vmax(tables[1], tables[2])]
    /\ IdleUnchanged

SpecRange == InitRange /\ [][ValueRange]_vars

\* =============================================== the script and its session
Secrets == {"", "s3cret"}
Passwords == {"", "s3cret", "guess"}

\* st.session_state as a set of <<key, value>> pairs
session_get(state, key, default) ==
    IF \E kv \in state : kv[1] = key
    THEN (CHOOSE kv \in state : kv[1] = key)[2]
    ELSE default
session_set(state, key, value) ==
    {kv \in state : kv[1] # key} \cup {<<key, value>>}

\* mutant: a failed login leaves the session as it was
login_never_locks(state, secret, password) ==
    IF secret # "" /\ password = secret
    THEN session_set(state, "logged_in", TRUE)
    ELSE state

\* lines 53-59: what a submitted login form does to the session
login(state, secret, password) ==
    IF secret # "" /\ password = secret
    THEN session_set(state, "logged_in", TRUE)
    ELSE session_set(state, "logged_in", FALSE)

\* pd.read_csv(f"aFRR{selected_year}.csv"): the year's file holds the records
\* of that year
read_csv(selected_year) ==
    [i \in 1..Len(file) |->
        [file[i] EXCEPT !.date = Date(selected_year, file[i].date.month,
                                      file[i].date.day)]]

NoFrame == [err |-> "None", index |-> <<>>, columns |-> <<>>, data |-> <<>>]
NoDaily == [shown |-> "", x |-> <<>>, y |-> <<>>]

\* one heatmap section: the two pivots, the colour range, the annotations
Section(up, dn, annot_up, annot_dn) ==
    IF \/ up.err = "KeyError" \/ dn.err = "KeyError"
       \/ annot_up.err = "KeyError" \/ annot_dn.err = "KeyError"
    THEN [err |-> "KeyError", up |-> NoFrame, dn |-> NoFrame, vmin |-> NaN,
          vmax |-> NaN, annot_up |-> NoFrame, annot_dn |-> NoFrame]
    ELSE [err |-> "", up |-> up, dn |-> dn, vmin |-> vmin(up, dn),
          vmax |-> vmax(up, dn), annot_up |-> annot_up, annot_dn |-> annot_dn]

Heatmap(df, values, aggfunc, show_days, ties) ==
    CHOOSE section \in
        {Section(up, dn, annot_up, annot_dn) :
            up \in {aggregate(df_up(df), upward_products, values, aggfunc)},
            dn \in {aggregate(df_dn(df), downward_products, values, aggfunc)},
            annot_up \in {IF show_days
                          THEN build_max_day_annotation(df_up(df), upward_products,
                                                        values, ties[1])
                          ELSE NoFrame},
            annot_dn \in {IF show_days
                          THEN build_max_day_annotation(df_dn(df), downward_products,
                                                        values, ties[2])
                          ELSE NoFrame}} : TRUE

\* lines 62-404: what one run renders below the login form; an uncaught
\* KeyError ends the run after the sections already rendered
Gated(df, all, w) ==
    LET done == Cardinality({k \in 1..Len(all) : \A j \in 1..k : all[j].err = ""})
    IN  [gated |-> TRUE,
         error |-> IF done < Len(all) THEN "KeyError" ELSE "",
         sections |-> SubSeq(all, 1, done),
         daily |-> IF done = Len(all)
                   THEN daily_view(df, w.selected_day, w.price_type)
                   ELSE NoDaily]

Render(state, w, ties) ==
    IF ~session_get(state, "logged_in", FALSE)
    THEN NoPage
    ELSE CHOOSE rendered \in
            {Gated(df, <<avg, max, marginal>>, w) :
                df \in {load_data(read_csv(w.year))},
                avg \in {Heatmap(load_data(read_csv(w.year)),
                                 "AVERAGE", "mean", FALSE, ties)},
                max \in {Heatmap(load_data(read_csv(w.year)),
                                 "AVERAGE", "max", w.max_price_days, ties)},
                marginal \in {Heatmap(load_data(read_csv(w.year)),
                                      "MARGINAL", "max", w.max_marginal_days,
                                      SubSeq(ties, 3, 4))}} : TRUE

\* a widget that a run does not render loses its value
Kept(w, rendered) ==
    [year |-> IF rendered.gated THEN w.year ELSE NoWidgets.year,
     max_price_days |-> Len(rendered.sections) >= 1 /\ w.max_price_days,
     max_marginal_days |-> Len(rendered.sections) >= 2 /\ w.max_marginal_days,
     selected_day |-> IF rendered.gated /\ rendered.error = "" THEN w.selected_day
                      ELSE Date(IF rendered.gated THEN w.year ELSE NoWidgets.year, 1, 1),
     price_type |-> IF rendered.gated /\ rendered.error = "" THEN w.price_type
                    ELSE NoWidgets.price_type]

\* the tie orders of the four sort_values calls a run can make; no call is
\* made while both checkboxes are off
TieOrders(w) ==
    IF w.max_price_days \/ w.max_marginal_days
    THEN [1..4 -> BOOLEAN]
    ELSE {[k \in 1..4 |-> FALSE]}

\* one run of the whole script
Script(submitted, password, w) ==
    /\ session_state' = IF submitted
                        THEN login(session_state, secret_password, password)
                        ELSE session_state
    /\ last_login' = IF submitted
                     THEN [submitted |-> TRUE, password |-> password]
                     ELSE last_login
    /\ \E ties \in TieOrders(w) :
        \E rendered \in {Render(session_state', w, ties)} :
            /\ page' = rendered
            /\ widgets' = Kept(w, rendered)
    /\ UNCHANGED <<secret_password, file, file2, tables, op, args, out>>

AppFiles ==
    {FillRecords(present, 2025) \o extra :
        present \in PermFills,
        extra \in {<<>>, <<[date |-> Date(2025, 1, 2), product |-> "POS_00_04",
                           average |-> 1, marginal |-> 1]>>}}

Init ==
    /\ secret_password \in Secrets
    /\ session_state = {}
    /\ last_login = [submitted |-> FALSE, password |-> ""]
    /\ widgets = NoWidgets
    /\ page = NoPage
    /\ file \in AppFiles
    /\ file2 = <<>>
    /\ tables = <<>>
    /\ op = "input"
    /\ args = NoArgs
    /\ out = <<>>

\* the login form is submitted
Login == \E password \in Passwords : Script(TRUE, password, widgets)

SelectYear ==
    /\ page.gated
    /\ \E y \in Years \ {widgets.year} :
        Script(FALSE, "", [widgets EXCEPT !.year = y, !.selected_day = Date(y, 1, 1)])

ToggleMaxDays ==
    /\ Len(page.sections) >= 1
    /\ Script(FALSE, "", [widgets EXCEPT !.max_price_days = ~@])

ToggleMarginalDays ==
    /\ Len(page.sections) >= 2
    /\ Script(FALSE, "", [widgets EXCEPT !.max_marginal_days = ~@])

SelectDay ==
    /\ page.gated /\ page.error = ""
    /\ \E d \in {1, 2} :
        /\ d # widgets.selected_day.day
        /\ Script(FALSE, "", [widgets EXCEPT !.selected_day = Date(widgets.year, 1, d)])

SelectPriceType ==
    /\ page.gated /\ page.error = ""
    /\ \E t \in PriceCols \ {widgets.price_type} :
        Script(FALSE, "", [widgets EXCEPT !.price_type = t])

Next ==
    \/ Login
    \/ SelectYear
    \/ ToggleMaxDays
    \/ ToggleMarginalDays
    \/ SelectDay
    \/ SelectPriceType

Spec == Init /\ [][Next]_vars

\* ================================================================ properties
\* the input records a property speaks about, by position in the file
Price(i, price_col) == IF price_col = "AVERAGE" THEN file[i].average ELSE file[i].marginal
GroupOf(month, product) ==
    {i \in 1..Len(file) : file[i].date.month = month /\ file[i].product = product}
OnDay(day, product) ==
    {i \in 1..Len(file) : file[i].date = day /\ file[i].product = product}
Least(S) == CHOOSE i \in S : \A k \in S : i <= k
GroupMax(S, price_col) ==
    CHOOSE v \in {Price(i, price_col) : i \in S} :
        \A k \in S : Price(k, price_col) <= v

RECURSIVE GroupSum(_, _)
GroupSum(S, price_col) ==
    IF S = {} THEN 0
    ELSE Price(Least(S), price_col) + GroupSum(S \ {Least(S)}, price_col)

CanonicalUp ==
    <<"POS_00_04", "POS_04_08", "POS_08_12", "POS_12_16", "POS_16_20", "POS_20_24">>
CanonicalDown ==
    <<"NEG_00_04", "NEG_04_08", "NEG_08_12", "NEG_12_16", "NEG_16_20", "NEG_20_24">>
Canonical(family) == IF family = "up" THEN CanonicalUp ELSE CanonicalDown
CalendarMonths ==
    <<"Jan", "Feb", "Mar", "Apr", "May", "Jun", "Jul", "Aug", "Sep", "Oct", "Nov", "Dec">>

\* a 12 x 6 frame of the family, rows Jan..Dec, columns in period order
IsMonthProductTable(frame, family) ==
    /\ frame.err = ""
    /\ frame.index = CalendarMonths
    /\ frame.columns = Canonical(family)
    /\ Len(frame.data) = 12
    /\ \A m \in 1..12 : Len(frame.data[m]) = 6

\* C1: aggregate yields, for every record set (the empty one included), a
\* table of exactly 12 rows Jan..Dec and 6 columns in period order; for the
\* empty record set every cell is undefined.
C1_AggregateAlways12x6 ==
    op = "aggregate" =>
        /\ IsMonthProductTable(out, args.family)
        /\ file = <<>> => \A m \in 1..12, j \in 1..6 : out.data[m][j].nan

\* C2: when one product of the family has no record while other products
\* have some, aggregate and day_of_max raise no error and the product's
\* column is undefined in every month.
C2_AbsentProductGivesEmptyColumn ==
    op \in {"aggregate", "day_of_max"} =>
        \A j \in 1..6 :
            (/\ \A i \in 1..Len(file) : file[i].product # Canonical(args.family)[j]
             /\ \E i \in 1..Len(file) : file[i].product \in AllCodes)
            => /\ IsMonthProductTable(out, args.family)
               /\ \A m \in 1..12 : out.data[m][j].nan

\* what the pipeline does instead: it raises KeyError exactly when some
\* product of the family has no record
KeyErrorIffProductAbsent ==
    op \in {"aggregate", "day_of_max"} =>
        /\ out.err \in {"", "KeyError"}
        /\ out.err = "KeyError" <=>
             \E j \in 1..6 :
                \A i \in 1..Len(file) : file[i].product # Canonical(args.family)[j]
        /\ out.err = "" => IsMonthProductTable(out, args.family)

\* the cell of a non-empty group is the day of the earliest record holding
\* the group's maximum
DayOfMaxCellIs(cell, group, price_col) ==
    /\ ~cell.nan
    /\ cell.den = 1
    /\ \E i \in group :
        /\ Price(i, price_col) = GroupMax(group, price_col)
        /\ cell.num = file[i].date.day
        /\ \A k \in group :
            Price(k, price_col) = GroupMax(group, price_col)
            => ~DateLt(file[k].date, file[i].date)

\* C5: for every (month, product) group of the family with at least one
\* record, the day_of_max cell is the day-of-month of the chronologically
\* earliest record holding the group's maximum.
C5_DayOfMaxCell ==
    op = "day_of_max" =>
        \A m \in 1..12, j \in 1..6 :
            LET group == GroupOf(m, Canonical(args.family)[j])
            IN  group # {} =>
                    /\ IsMonthProductTable(out, args.family)
                    /\ DayOfMaxCellIs(out.data[m][j], group, args.values)

\* the same, for the runs that return a table
DayOfMaxCellWhenNoError ==
    (op = "day_of_max" /\ out.err = "") =>
        \A m \in 1..12, j \in 1..6 :
            LET group == GroupOf(m, Canonical(args.family)[j])
            IN  IF group = {} THEN out.data[m][j].nan
                ELSE DayOfMaxCellIs(out.data[m][j], group, args.values)

AggregateCellIs(cell, group, price_col, aggfunc) ==
    /\ ~cell.nan
    /\ IF aggfunc = "mean"
       THEN cell.num * Cardinality(group) = GroupSum(group, price_col) * cell.den
       ELSE cell = Val(GroupMax(group, price_col))

\* C7: for every non-empty (month, product) group of the family, the mean
\* cell is the group's sum divided by its count and the max cell is the
\* group's largest value; no other record contributes.
C7_AggregateCell ==
    op = "aggregate" =>
        \A m \in 1..12, j \in 1..6 :
            LET group == GroupOf(m, Canonical(args.family)[j])
            IN  group # {} =>
                    /\ IsMonthProductTable(out, args.family)
                    /\ AggregateCellIs(out.data[m][j], group, args.values, args.aggfunc)

\* the same, for the runs that return a table
AggregateCellWhenNoError ==
    (op = "aggregate" /\ out.err = "") =>
        \A m \in 1..12, j \in 1..6 :
            LET group == GroupOf(m, Canonical(args.family)[j])
            IN  IF group = {} THEN out.data[m][j].nan
                ELSE AggregateCellIs(out.data[m][j], group, args.values, args.aggfunc)

\* ---------------------------------------------------------------- C3
DefinedCells(frame) ==
    {frame.data[m][j] : m \in 1..Len(frame.index), j \in 1..Len(frame.columns)}
        \ {NaN}

IsRangeOf(lo, hi, cells) ==
    IF cells = {} THEN lo.nan /\ hi.nan
    ELSE /\ lo \in cells /\ \A c \in cells : ~FloatLt(c, lo)
         /\ hi \in cells /\ \A c \in cells : ~FloatGt(c, hi)

ValueRangeByUpwardTable ==
    op = "value_range" =>
        IF DefinedCells(tables[1]) = {}
        THEN out.vmin.nan /\ out.vmax.nan
        ELSE IsRangeOf(out.vmin, out.vmax,
                       DefinedCells(tables[1]) \cup DefinedCells(tables[2]))

\* ---------------------------------------------------------------- C4, C9
CanonicalAll == CanonicalUp \o CanonicalDown
DayLabels ==
    <<<<"Up", "0 to 4">>, <<"Up", "4 to 8">>, <<"Up", "8 to 12">>,
      <<"Up", "12 to 16">>, <<"Up", "16 to 20">>, <<"Up", "20 to 24">>,
      <<"Down", "0 to 4">>, <<"Down", "4 to 8">>, <<"Down", "8 to 12">>,
      <<"Down", "12 to 16">>, <<"Down", "16 to 20">>, <<"Down", "20 to 24">>>>

\* 12 entries in the fixed order: a present product's entry is the chosen
\* price of a record of that product on the day, an absent one's is missing
TwelveEntries(view, day, price_type) ==
    /\ view.shown = "chart"
    /\ view.x = DayLabels
    /\ Len(view.y) = 12
    /\ \A k \in 1..12 :
        LET found == OnDay(day, CanonicalAll[k])
        IN  IF found = {} THEN view.y[k] = NaN
            ELSE \E i \in found : view.y[k] = Val(Price(i, price_type))

DayHasRecord(day) == \E i \in 1..Len(file) : file[i].date = day

\* C4 as stated: for any selected day, a day without any record included,
\* extract_day produces exactly 12 entries in the fixed order, values for the
\* products present and the missing marker for the absent ones.
C4_TwelveEntriesForAnyDay ==
    op = "extract_day" => TwelveEntries(out, args.selected_day, args.values)

\* C4 as amended: the 12 entries are produced for every selected day that has
\* at least one record; for a day without any record no entry is produced
\* and the "no data" notice is shown instead.
C4_TwelveEntriesWhenDayHasRecord ==
    op = "extract_day" =>
        IF DayHasRecord(args.selected_day)
        THEN TwelveEntries(out, args.selected_day, args.values)
        ELSE out.shown = "info" /\ out.x = <<>> /\ out.y = <<>>

\* a day with 11 of the 12 products: 11 values and one missing marker
C4_Witness ==
    /\ op = "extract_day"
    /\ Cardinality({k \in 1..12 : OnDay(args.selected_day, CanonicalAll[k]) # {}}) = 11
    /\ Cardinality({k \in 1..12 : out.y[k] = NaN}) = 1
    /\ out.y[8] = NaN

\* the file without the records that repeat an earlier (day, product)
FirstOfEach ==
    LET kept == {i \in 1..Len(file) :
                    \A k \in 1..(i - 1) :
                        ~(file[k].date = file[i].date /\ file[k].product = file[i].product)}
    IN  [n \in 1..Cardinality(kept) |->
            file[CHOOSE i \in kept : Cardinality({k \in kept : k <= i}) = n]]

\* C9: when the selected day holds several records of one product, that
\* product's entry is the chosen price of the first of them in input order,
\* and the extra records change neither the number of entries nor the other
\* entries.
C9_FirstDuplicateWins ==
    op = "extract_day" =>
        \A k \in 1..12 :
            LET found == OnDay(args.selected_day, CanonicalAll[k])
            IN  Cardinality(found) > 1 =>
                    /\ Len(out.y) = 12
                    /\ out.y[k] = Val(Price(Least(found), args.values))
                    /\ out.y = daily_view(load_data(FirstOfEach), args.selected_day,
                                          args.values).y

C9_Witness ==
    /\ op = "extract_day"
    /\ \E k \in 1..12 :
        LET found == OnDay(args.selected_day, CanonicalAll[k])
        IN  /\ Cardinality(found) > 1
            /\ \E i \in found : Price(i, args.values) # Price(Least(found), args.values)
            /\ out.y[k] = Val(Price(Least(found), args.values))

\* ---------------------------------------------------------------- C6
IsPermutation(s, t) ==
    /\ Len(s) = Len(t)
    /\ \A r \in Range(s) \cup Range(t) :
        Cardinality({i \in 1..Len(s) : s[i] = r}) = Cardinality({i \in 1..Len(t) : t[i] = r})

\* C6: day_of_max gives the same result on every reordering of the record
\* sequence, also when a group holds several records with the maximum.
C6_PermutationInvariant ==
    op = "day_of_max_both" => (IsPermutation(file, file2) /\ out.a = out.b)

\* two records of one group share the maximum on different days, the later
\* one comes first in the file, and the reordered file differs
C6_Witness ==
    /\ op = "day_of_max_both"
    /\ file2 # file
    /\ out.a.err = ""
    /\ \E i \in 1..Len(file), k \in 1..Len(file) :
        /\ i < k
        /\ file[i].product = file[k].product
        /\ file[i].product \in Range(Canonical(args.family))
        /\ file[i].date.month = file[k].date.month
        /\ DateLt(file[k].date, file[i].date)
        /\ Price(i, args.values) = Price(k, args.values)
        /\ Price(i, args.values) =
             GroupMax(GroupOf(file[i].date.month, file[i].product), args.values)

\* ---------------------------------------------------------------- C8
Occurrences(frame, row) == Cardinality({k \in 1..Len(frame) : frame[k] = row})

\* C8: the upward and the downward subset are disjoint, every record with a
\* POS code is exactly once in the upward subset and every record with a NEG
\* code exactly once in the downward subset, each unchanged; nothing else is
\* in them, and the original frame is as loaded.
C8_SplitPartition ==
    op = "split" =>
        /\ out.df = load_data(file)
        /\ \A i \in 1..Len(out.df) :
            LET row == out.df[i]
            IN  /\ Occurrences(out.df_up, row) =
                     (IF row.PRODUCT \in Range(CanonicalUp) THEN 1 ELSE 0)
                /\ Occurrences(out.df_dn, row) =
                     (IF row.PRODUCT \in Range(CanonicalDown) THEN 1 ELSE 0)
        /\ Range(out.df_up) \subseteq Range(out.df)
        /\ Range(out.df_dn) \subseteq Range(out.df)
        /\ Range(out.df_up) \cap Range(out.df_dn) = {}

C8_Witness ==
    /\ op = "split"
    /\ out.df_up # <<>>
    /\ out.df_dn # <<>>
    /\ Len(out.df_up) + Len(out.df_dn) < Len(out.df)

\* ---------------------------------------------------------------- C10
LoggedIn == session_get(session_state, "logged_in", FALSE)

\* C10: gated content is rendered only with the logged-in flag true, and the
\* flag is true exactly when the most recent login submission gave a password
\* equal to a non-empty configured secret.
C10_GateFollowsLastLogin ==
    /\ page.gated => LoggedIn
    /\ ~page.gated => (page.sections = <<>> /\ page.daily = NoDaily)
    /\ LoggedIn <=> /\ last_login.submitted
                    /\ secret_password # ""
                    /\ last_login.password = secret_password

\* unlocked, and rerun by a widget since: the charts of another year are shown
C10_Witness ==
    /\ LoggedIn
    /\ page.gated
    /\ widgets.year # NoWidgets.year
    /\ page.daily.shown = "chart"

====
